---- MODULE Spec2Model ----
(***************************************************************************)
(* A model of yagmail's Connect class (src/yagmail/yagmail.py): one SMTP   *)
(* session with its unsent queue, its content cache and its retry loop,    *)
(* and the address resolution and message assembly that feed it.           *)
(*                                                                         *)
(* Every public method is one action.  What the method cannot decide by    *)
(* itself (the arguments of the call, the answers of the SMTP transport,   *)
(* whether another thread gets its turn while the call sleeps in its retry *)
(* loop) is an input drawn with \E.  A call that sleeps without a lock     *)
(* (line 86) can leave the step there: it waits in `asleep` while the      *)
(* calls of other threads are steps of their own, and Wake takes it up     *)
(* again.  Strings that the code concatenates are sequences of string      *)
(* tokens; '; '.join(x) interleaves the token "; ".                        *)
(***************************************************************************)
EXTENDS Integers, Sequences, FiniteSets, TLC

VARIABLES
    user,           \* self.user: the address given to the transport as sender
    username,       \* self.username: the display name of the user
    starttls,       \* self.starttls: "True" | "None" | "options"
    is_closed,      \* self.is_closed
    smtp,           \* self.smtp, the transport handle: "live" | "dead" | "quit"
    cache,          \* self.cache: content item -> content object
    unsent,         \* self.unsent: sequence of <<recipients, msg_string>>
    num_mail_sent,  \* self.num_mail_sent
    alive,          \* FALSE once __del__ has run
    yields,         \* how many times a call has been overtaken in a sleep
    asleep,         \* the calls that wait in time.sleep (line 86) while other
                    \* threads run, one frame each
    lxml,           \* whether the import of lxml.html succeeded (lines 21-24)
    call,           \* the method the last step ran, with its arguments: a
                    \* method called, or "sleep" / "wake" with the call that
                    \* fell asleep / was taken up again and ended
    result,         \* how that call ended: a returned value or a raised error
                    \* (or that it sleeps)
    trace           \* the transport calls and sleeps that call made, in order,
                    \* from its start on

vars == <<user, username, starttls, is_closed, smtp, cache, unsent,
          num_mail_sent, alive, yields, asleep, lxml, call, result, trace>>

----------------------------------------------------------------------------
(* Bounds of the model *)

\* send is not started once this many mails are sent or waiting in unsent
MaxMail == 2

\* other threads get their turn in no more sleeps than this; a call that
\* sleeps beyond that sleeps with nothing else going on
MaxYields == 1

\* a cached part is not encoded more often than this
MaxEncode == 2

\* the longest list of addresses given to _resolveAddresses on its own
MaxAddrs == 2

\* the longest list of content items given to _prepare_message on its own
MaxItems == 2

\* program constants
MaxAttempts == 3
BackoffUnit == 3

----------------------------------------------------------------------------
(* Small helpers *)

Range(s) == {s[i] : i \in 1..Len(s)}

RemoveAt(s, i) == SubSeq(s, 1, i - 1) \o SubSeq(s, i + 1, Len(s))

\* one entry of trace: what was called (ev), how it ended (out), a number
\* (n: the attempt, the seconds slept), the arguments (item), and for a call
\* on the transport the state the handle was in (on)
EvOn(ev, out, n, item, on) == [ev |-> ev, out |-> out, n |-> n, item |-> item, on |-> on]
Ev(ev, out, n, item) == EvOn(ev, out, n, item, "")

\* a byte that is not ASCII, and what as_string() writes in its place when
\* the payload it is in has not been encoded
NonAscii == "\\x8b"
Replacement == "U+FFFD"

\* how a call ended
Return(val, payload) == [kind |-> "return", val |-> val, payload |-> payload]
Raise(exc) == [kind |-> "raise", val |-> exc, payload |-> <<>>]

----------------------------------------------------------------------------
(* The SMTP transport (smtplib.SMTP), an external collaborator.            *)
(* A handle is "live" after connect, "dead" after the connection was lost  *)
(* or closed under it, and "quit" after quit().  On a handle that is not   *)
(* live every command raises SMTPServerDisconnected.  On a live handle the *)
(* answer is an input:                                                     *)
(*   "ok"      the mail is accepted                                        *)
(*   "reject"  a reply that refuses the mail and leaves the connection up  *)
(*             (a 4xx or 5xx reply; a 421 reply to the DATA command, for   *)
(*             which smtplib's data() raises without closing): an          *)
(*             SMTPException that is not a disconnect                      *)
(*   "shut"    a 421 reply to MAIL or RCPT or to the message body: the     *)
(*             same kind of SMTPException, and sendmail closes the         *)
(*             connection before raising it                                *)
(*   "disc"    the connection is lost: smtplib closes the socket and       *)
(*             raises SMTPServerDisconnected, the handle is dead           *)

Outcomes == {"ok", "reject", "shut", "disc"}

\* smtplib's sendmail encodes the message as ASCII before it sends a command
\* (msg.encode('ascii')), which a message that holds any other character
\* fails with UnicodeEncodeError.  On a handle that was quit the EHLO that
\* comes before the encoding already finds the connection gone.
IsAscii(msg_string) == \A i \in 1..Len(msg_string) : msg_string[i] # Replacement

Unencodable(h, msg_string) == h # "quit" /\ ~IsAscii(msg_string)

\* the answer of smtp.sendmail on handle h when the server would answer o
SendmailOutcome(h, o) ==
    IF h # "live" THEN "disc"
    ELSE IF o = "shut" THEN "reject"
    ELSE o

\* the handle after that call
SendmailHandle(h, o) ==
    IF h = "live" /\ o \in {"disc", "shut"} THEN "dead" ELSE h

----------------------------------------------------------------------------
(* Connect.close, lines 99-103.  smtp.quit() on a handle that is not live  *)
(* raises SMTPServerDisconnected.  The value is [is_closed, smtp, res,     *)
(* trace].                                                                 *)

close(h) ==
    IF h = "live"
    THEN [is_closed |-> TRUE, smtp |-> "quit", res |-> Return("None", <<>>),
          trace |-> <<Ev("quit", "ok", 0, <<>>)>>]
    ELSE [is_closed |-> TRUE, smtp |-> h, res |-> Raise("SMTPServerDisconnected"),
          trace |-> <<Ev("quit", "disc", 0, <<>>)>>]

----------------------------------------------------------------------------
(* Connect.login, lines 105-139.                                           *)
(* a is [password, keyring, connect, tls, auth]:                           *)
(*   password  "given" or "none" (the argument is None)                    *)
(*   keyring   where the secret store holds the password: "raw" (under the *)
(*             user as given), "full" (only under user@gmail.com) or       *)
(*             "absent"                                                    *)
(*   connect, tls, auth   whether the transport accepts the connection,    *)
(*             the STARTTLS negotiation and the credentials                *)
(* tls is self.starttls (smtp_starttls of the constructor): "True", "False" *)
(* or "None".                                                              *)
(* The value is [user, is_closed, smtp, res, trace].                       *)

HasAt(u) == u # "me"
WithGmail(u) == IF u = "me" THEN "me@gmail.com" ELSE u

\* lines 112-118
TlsSteps(tls) ==
    IF tls = "None" THEN <<>>
    ELSE <<Ev("ehlo", "ok", 0, <<>>), Ev("starttls", "ok", 0, <<>>), Ev("ehlo", "ok", 0, <<>>)>>

\* lines 120-125: whether one of the two lookups finds the password
InKeyring(u, a) == a.keyring = "raw" \/ (a.keyring = "full" /\ ~HasAt(u))

\* lines 125-135: with no password given and none in the keyring the
\* password is read with getpass.  Line 131 assigns to the name input, which
\* makes it a local of login; raw_input does not exist, the NameError is
\* passed over (lines 132-133), and the call of input at line 135 raises
\* UnboundLocalError: the question is never asked, lines 136-139 never run.
Prompts(u, a) == a.password = "none" /\ ~InKeyring(u, a)

\* lines 119-127
PasswordSteps(u, a) ==
    IF a.password # "none" THEN <<>>
    ELSE <<Ev("get_password", u, 0, <<>>)>>
         \o (IF a.keyring = "raw" THEN <<>>
             ELSE <<Ev("get_password", IF HasAt(u) THEN u ELSE WithGmail(u), 0, <<>>)>>
                  \o (IF InKeyring(u, a) THEN <<>>
                      ELSE <<Ev("getpass", "", 0, <<>>)>>))

login(u, closed, h, tls, a) ==
    IF ~a.connect
    THEN [user |-> u, is_closed |-> closed, smtp |-> h, res |-> Raise("ConnectError"),
          trace |-> <<Ev("connect", "fail", 0, <<>>)>>]
    ELSE IF tls = "False"   \* line 117: starttls(**False) is a TypeError in the caller
    THEN [user |-> u, is_closed |-> closed, smtp |-> "live", res |-> Raise("TypeError"),
          trace |-> <<Ev("connect", "ok", 0, <<>>), Ev("ehlo", "ok", 0, <<>>)>>]
    ELSE IF tls # "None" /\ ~a.tls
    THEN [user |-> u, is_closed |-> closed, smtp |-> "live", res |-> Raise("SMTPException"),
          trace |-> <<Ev("connect", "ok", 0, <<>>), Ev("ehlo", "ok", 0, <<>>),
                      Ev("starttls", "fail", 0, <<>>)>>]
    ELSE LET u1 == IF a.password = "none" /\ ~HasAt(u) THEN WithGmail(u) ELSE u
             t  == <<Ev("connect", "ok", 0, <<>>)>> \o TlsSteps(tls) \o PasswordSteps(u, a)
         IN IF Prompts(u, a)
            THEN [user |-> u1, is_closed |-> closed, smtp |-> "live",
                  res |-> Raise("UnboundLocalError"), trace |-> t]
            ELSE IF a.auth
            THEN [user |-> u1, is_closed |-> FALSE, smtp |-> "live",
                  res |-> Return("None", <<>>),
                  trace |-> Append(t, Ev("login", "ok", 0, <<>>))]
            ELSE [user |-> u1, is_closed |-> closed, smtp |-> "live",
                  res |-> Raise("SMTPAuthenticationError"),
                  trace |-> Append(t, Ev("login", "fail", 0, <<>>))]

----------------------------------------------------------------------------
(* Connect._attempt_send, lines 75-88.                                     *)
(* s is the part of the object that the loop reads and writes, with the    *)
(* trace of the call so far:                                               *)
(* [user, starttls, is_closed, smtp, unsent, num_mail_sent, trace].        *)
(* script[k] is [o, y]: o is what the server answers to the k-th sendmail  *)
(* if the call gets that far on a live handle; y says whether other        *)
(* threads run during the sleep that follows it (line 86, no lock held).   *)
(* If so the call is left there: the value is [s, res, attempts] with res  *)
(* Sleeping, and the loop is taken up later from `attempts`.  Else the     *)
(* value is [s, res].                                                      *)

\* line 86: time.sleep(attempts * 3), attempts already incremented
Backoff(attempts) == attempts * BackoffUnit

\* the call has not ended: it is in time.sleep
Sleeping == [kind |-> "sleep", val |-> "time.sleep", payload |-> <<>>]

RECURSIVE AttemptLoop(_, _, _, _, _)
AttemptLoop(s, recipients, msg_string, script, attempts) ==
    IF attempts < MaxAttempts /\ Unencodable(s.smtp, msg_string)
    THEN [s   |-> [s EXCEPT !.trace =
                      Append(@, EvOn("sendmail", "unencodable", attempts + 1,
                                     <<recipients, msg_string>>, s.smtp))],
          res |-> Raise("UnicodeEncodeError")]
    ELSE IF attempts < MaxAttempts
    THEN LET o   == script[attempts + 1].o
             out == SendmailOutcome(s.smtp, o)
             h   == SendmailHandle(s.smtp, o)
             t   == Append(s.trace,
                           EvOn("sendmail", out, attempts + 1, <<recipients, msg_string>>,
                                s.smtp))
             zz  == [s EXCEPT !.smtp = h,
                              !.trace = Append(t, Ev("sleep", "", Backoff(attempts + 1),
                                                     <<>>))]
         IN CASE out = "ok" ->
                   [s   |-> [s EXCEPT !.smtp = h, !.trace = t,
                                      !.num_mail_sent = @ + 1],
                    res |-> Return("sendmail_result", <<>>)]
              [] out = "reject" ->
                   [s   |-> [s EXCEPT !.smtp = h, !.trace = t],
                    res |-> Raise("SMTPException")]
              [] OTHER ->
                   IF script[attempts + 1].y
                   THEN [s |-> zz, res |-> Sleeping, attempts |-> attempts + 1]
                   ELSE AttemptLoop(zz, recipients, msg_string, script, attempts + 1)
    ELSE [s   |-> [s EXCEPT !.unsent = Append(@, <<recipients, msg_string>>)],
          res |-> Return("False", <<>>)]

\* _attempt_send with line 87 left out: the exhausted message is not queued
attempt_send_not_queued(s, recipients, msg_string, script, attempts) ==
    [AttemptLoop(s, recipients, msg_string, script, attempts) EXCEPT !.s.unsent = s.unsent]

\* _attempt_send with the append of line 87 in a finally clause: a rejected
\* message is queued too
attempt_send_queue_rejected(s, recipients, msg_string, script, attempts) ==
    IF AttemptLoop(s, recipients, msg_string, script, attempts).res = Raise("SMTPException")
    THEN [AttemptLoop(s, recipients, msg_string, script, attempts) EXCEPT
             !.s.unsent = Append(@, <<recipients, msg_string>>)]
    ELSE AttemptLoop(s, recipients, msg_string, script, attempts)

\* the loop from its start (attempts = 0), or taken up after a sleep
attempt_send(s, recipients, msg_string, script, attempts) ==
    AttemptLoop(s, recipients, msg_string, script, attempts)

\* The scripts one _attempt_send can tell apart from its k-th attempt on.
\* An answer is read only on a live handle and for a message that sendmail
\* can encode, other threads get their turn only in a sleep, and nothing is
\* read once the call has ended or is left; what is not read is left Quiet.
\* may says whether the call may be left in a sleep.
Quiet == [o |-> "ok", y |-> FALSE]

AllOk == [i \in 1..MaxAttempts |-> Quiet]

RECURSIVE ScriptsFrom(_, _, _, _)
ScriptsFrom(h, ascii, k, may) ==
    IF k > MaxAttempts
    THEN {<<>>}
    ELSE IF ~ascii /\ h # "quit"
    THEN {[i \in 1..(MaxAttempts - k + 1) |-> Quiet]}
    ELSE UNION {IF SendmailOutcome(h, o) # "disc"
                THEN {[i \in 1..(MaxAttempts - k + 1) |->
                          IF i = 1 THEN [o |-> o, y |-> FALSE] ELSE Quiet]}
                ELSE {<<[o |-> o, y |-> FALSE]>> \o rest :
                         rest \in ScriptsFrom(SendmailHandle(h, o), ascii, k + 1, may)}
                     \cup (IF may
                           THEN {[i \in 1..(MaxAttempts - k + 1) |->
                                     IF i = 1 THEN [o |-> o, y |-> TRUE] ELSE Quiet]}
                           ELSE {}) :
                o \in IF h = "live" THEN Outcomes ELSE {"ok"}}

\* the scripts of a call that is taken up after its attempts-th sleep
ScriptsAfter(h, ascii, attempts, may) ==
    {[i \in 1..attempts |-> Quiet] \o sc : sc \in ScriptsFrom(h, ascii, attempts + 1, may)}

----------------------------------------------------------------------------
(* Connect.send_unsent, lines 90-97.                                       *)
(* range(len(self.unsent)) is evaluated once, so the loop runs for         *)
(* i = 0 .. n-1 with n the length at the start; pop(i) raises IndexError   *)
(* when the list has become shorter than i+1.  A call left in a sleep has  *)
(* the value [s, res, attempts, i, n, recipients, msg_string]: where it is *)
(* in the loop and which entry it holds.                                   *)

RECURSIVE SendUnsentLoop(_, _, _, _)
RECURSIVE AttemptUnsent(_, _, _, _, _, _, _)

\* line 97 for the entry popped in turn i, from `attempts` on, and the turns
\* that follow it
AttemptUnsent(s, recipients, msg_string, scripts, i, n, attempts) ==
    LET r == attempt_send(s, recipients, msg_string, scripts[i + 1], attempts)
    IN IF r.res.kind = "raise"
       THEN r
       ELSE IF r.res.kind = "sleep"
       THEN [s |-> r.s, res |-> r.res, attempts |-> r.attempts, i |-> i, n |-> n,
             recipients |-> recipients, msg_string |-> msg_string]
       ELSE SendUnsentLoop(r.s, scripts, i + 1, n)

SendUnsentLoop(s, scripts, i, n) ==
    IF i >= n
    THEN [s |-> s, res |-> Return("None", <<>>)]
    ELSE IF i + 1 > Len(s.unsent)
    THEN [s |-> s, res |-> Raise("IndexError")]
    ELSE AttemptUnsent([s EXCEPT !.unsent = RemoveAt(@, i + 1)],
                       s.unsent[i + 1][1], s.unsent[i + 1][2], scripts, i, n, 0)

send_unsent(s, scripts) == SendUnsentLoop(s, scripts, 0, Len(s.unsent))

\* The scripts one send_unsent can tell apart: one for each call of
\* _attempt_send it gets to, AllOk for those it does not get to.
RECURSIVE ScriptSeqsFrom(_, _, _, _)
ScriptSeqsFrom(s, i, n, may) ==
    IF i >= n
    THEN {<<>>}
    ELSE IF i + 1 > Len(s.unsent)
    THEN {[k \in 1..(n - i) |-> AllOk]}
    ELSE UNION {UNION {IF r.res.kind # "return"
                       THEN {[k \in 1..(n - i) |-> IF k = 1 THEN sc ELSE AllOk]}
                       ELSE {<<sc>> \o rest : rest \in ScriptSeqsFrom(r.s, i + 1, n, may)} :
                       r \in {attempt_send([s EXCEPT !.unsent = RemoveAt(@, i + 1)],
                                           s.unsent[i + 1][1], s.unsent[i + 1][2], sc, 0)}} :
                sc \in ScriptsFrom(s.smtp, IsAscii(s.unsent[i + 1][2]), 1, may)}

ScriptSeqs(s, may) == ScriptSeqsFrom(s, 0, Len(s.unsent), may)

\* the scripts of a send_unsent that is taken up in turn i after the
\* attempts-th sleep of the entry it holds
ScriptSeqsAfter(s, recipients, msg_string, i, n, attempts, may) ==
    UNION {UNION {IF r.res.kind # "return"
                  THEN {[k \in 1..n |-> IF k = i + 1 THEN sc ELSE AllOk]}
                  ELSE {[k \in 1..i |-> AllOk] \o <<sc>> \o rest :
                           rest \in ScriptSeqsFrom(r.s, i + 1, n, may)} :
                  r \in {attempt_send(s, recipients, msg_string, sc, attempts)}} :
           sc \in ScriptsAfter(s.smtp, IsAscii(msg_string), attempts, may)}

----------------------------------------------------------------------------
(* Arguments of send.  An address argument (to, cc, bcc) is                *)
(* [kind, items]: kind says which Python type was passed, items is the     *)
(* sequence of [addr, name] it holds (addr = name unless it is a dict,     *)
(* whose keys are the addresses and whose values are the names).           *)
(*   "none"      None                                                      *)
(*   "str"       one string                                                *)
(*   "list"      a list or a tuple of strings                              *)
(*   "dict"      a dict, in insertion order                                *)
(*   "other"     any other type, or a list with an element that is not a   *)
(*               string: both raise YagAddressError                        *)

None == [kind |-> "none", items |-> <<>>]
Str(a) == [kind |-> "str", items |-> <<[addr |-> a, name |-> a]>>]
List(as) == [kind |-> "list", items |-> [i \in 1..Len(as) |-> [addr |-> as[i], name |-> as[i]]]]
Dict(items) == [kind |-> "dict", items |-> items]

Addrs(x) == [i \in 1..Len(x.items) |-> x.items[i].addr]
Names(x) == [i \in 1..Len(x.items) |-> x.items[i].name]

\* sep.join(x) as a sequence of tokens
RECURSIVE JoinWith(_, _)
JoinWith(sep, x) ==
    IF Len(x) = 0 THEN <<>>
    ELSE IF Len(x) = 1 THEN <<x[1]>>
    ELSE <<x[1], sep>> \o JoinWith(sep, Tail(x))

Join(x) == JoinWith("; ", x)

\* d[k] = v on a dict kept as a function
SetKey(d, k, v) == (k :> v) @@ d

NoHeaders == [k \in {} |-> <<>>]

----------------------------------------------------------------------------
(* validate_email_with_regex (yagmail/validate.py): raises                 *)
(* YagInvalidEmailAddress unless the string is a syntactically valid       *)
(* address.                                                                *)

ValidAddresses == {"a@x.com", "b@x.com", "me@x.com", "me@gmail.com", "kootenpv@gmail.com"}
InvalidAddresses == {"bad", "worse@", "me", "Me"}

validate_email_with_regex(a) == a \in ValidAddresses

----------------------------------------------------------------------------
(* Connect._make_addr_alias_target, lines 244-260.                         *)
(* The value is [ok, addresses]; ok = FALSE is a raised YagAddressError.   *)

\* _make_addr_alias_target with line 257 extending by x.values(): the names
\* of a dict become the recipients
make_addr_alias_target_values(x, addresses, which) ==
    CASE x.kind = "str" ->
           [ok |-> TRUE,
            addresses |-> [recipients |-> Append(addresses.recipients, x.items[1].addr),
                           hdr |-> SetKey(addresses.hdr, "To", <<x.items[1].addr>>)]]
      [] x.kind = "list" ->
           [ok |-> TRUE,
            addresses |-> [recipients |-> addresses.recipients \o Addrs(x),
                           hdr |-> SetKey(addresses.hdr, which, Join(Addrs(x)))]]
      [] x.kind = "dict" ->
           [ok |-> TRUE,
            addresses |-> [recipients |-> addresses.recipients \o Names(x),
                           hdr |-> SetKey(addresses.hdr, which, Join(Names(x)))]]
      [] OTHER ->
           [ok |-> FALSE, addresses |-> addresses]

make_addr_alias_target(x, addresses, which) ==
    CASE x.kind = "str" ->
           [ok |-> TRUE,
            addresses |-> [recipients |-> Append(addresses.recipients, x.items[1].addr),
                           hdr |-> SetKey(addresses.hdr, "To", <<x.items[1].addr>>)]]
      [] x.kind = "list" ->
           [ok |-> TRUE,
            addresses |-> [recipients |-> addresses.recipients \o Addrs(x),
                           hdr |-> SetKey(addresses.hdr, which, Join(Addrs(x)))]]
      [] x.kind = "dict" ->
           [ok |-> TRUE,
            addresses |-> [recipients |-> addresses.recipients \o Addrs(x),
                           hdr |-> SetKey(addresses.hdr, which, Join(Names(x)))]]
      [] OTHER ->
           [ok |-> FALSE, addresses |-> addresses]

----------------------------------------------------------------------------
(* Connect._resolveAddresses, lines 141-164.                               *)
(* The value is [exc, addresses]: exc = "" when the method returns.        *)

\* list.remove(e): drop the first element equal to e
RemoveFirst(s, e) ==
    LET i == CHOOSE k \in 1..Len(s) : s[k] = e /\ \A j \in 1..(k - 1) : s[j] # e
    IN RemoveAt(s, i)

\* lines 155-163: the for loop reads recipients[i] (i from 0) until i reaches
\* the current length of the list, which remove() shortens under it
RECURSIVE ValidateLoop(_, _, _)
ValidateLoop(recipients, i, throw_invalid_exception) ==
    IF i > Len(recipients)
    THEN [exc |-> "", recipients |-> recipients]
    ELSE IF validate_email_with_regex(recipients[i])
    THEN ValidateLoop(recipients, i + 1, throw_invalid_exception)
    ELSE IF throw_invalid_exception
    THEN [exc |-> "YagInvalidEmailAddress", recipients |-> recipients]
    ELSE ValidateLoop(RemoveFirst(recipients, recipients[i]), i + 1,
                      throw_invalid_exception)

\* lines 150-153: a step that runs only if nothing was raised before it
ThenTarget(r, x, which) ==
    IF r.ok /\ x.kind # "none"
    THEN make_addr_alias_target(x, r.addresses, which)
    ELSE r

resolveAddresses(u, un, to, cc, bcc, validate_email, throw_invalid_exception) ==
    LET a0 == [recipients |-> <<>>, hdr |-> NoHeaders]
        r1 == IF to.kind # "none"
              THEN make_addr_alias_target(to, a0, "to")
              ELSE IF cc.kind # "none" /\ bcc.kind # "none"
              THEN make_addr_alias_target(List(<<u, un>>), a0, "to")
              ELSE [ok |-> TRUE,
                    addresses |-> [a0 EXCEPT !.recipients = Append(@, u)]]
        r3 == ThenTarget(ThenTarget(r1, cc, "cc"), bcc, "bcc")
    IN IF ~r3.ok
       THEN [exc |-> "YagAddressError", addresses |-> r3.addresses]
       ELSE IF validate_email
       THEN LET v == ValidateLoop(r3.addresses.recipients, 1, throw_invalid_exception)
            IN [exc |-> v.exc,
                addresses |-> [r3.addresses EXCEPT !.recipients = v.recipients]]
       ELSE [exc |-> "", addresses |-> r3.addresses]

----------------------------------------------------------------------------
(* Content items.  The contents argument of send is [kind, items]:         *)
(* "none" (None), "str" (one string, items has that one string) or "list"  *)
(* (a list).  An item is [src, name, isdict]: a plain string src, or the   *)
(* single-entry dict {src: name}.                                          *)
(*                                                                         *)
(* What a source string is (a file on disk, a URL that answers, markup) is *)
(* decided outside the program; World records it per string:               *)
(*   isfile  os.path.isfile(src)                                           *)
(*   fetch   requests.get(src): "raise" (IOError, ValueError or            *)
(*           MissingSchema), "typed" (a content-type header "main/sub"),   *)
(*           "badtype" (a content-type header that does not split in two   *)
(*           at '/'), "untyped" (no such header)                           *)
(*   ctype   that header, split at '/'                                     *)
(*   guess   mimetypes.guess_type(src)[0] split at '/', <<>> for None      *)
(*   enc     mimetypes.guess_type(src)[1], "" for None                     *)
(*   html    lxml.html.fromstring(src): "p" (a bare paragraph, no child    *)
(*           element), "markup" (any other tree), "empty" (the string is   *)
(*           empty or blank: there is no tree, the parser raises           *)
(*           lxml.etree.ParserError)                                       *)
(*   base    os.path.basename(src)                                         *)
(*   first   src[0], the first character of the string                     *)
(*   ascii   whether the content read from the file or fetched is all      *)
(*           ASCII (a text file), or holds other bytes (an image, an       *)
(*           archive)                                                      *)

Item(src) == [src |-> src, name |-> src, isdict |-> FALSE]
Named(src, name) == [src |-> src, name |-> name, isdict |-> TRUE]

NoContents == [kind |-> "none", items |-> <<>>]
StrContents(src) == [kind |-> "str", items |-> <<Item(src)>>]
ListContents(items) == [kind |-> "list", items |-> items]

\* the default message of feedback, line 326
FeedbackMessage ==
    "Awesome features! You made my day! How can I contribute? Winter is coming."

World ==
    [src \in {"", "hello", "<h1>hi</h1>", "pic.png", "http://x/y.png", "docs/a.tar.gz",
              FeedbackMessage} |->
        CASE src = "" ->
               [isfile |-> FALSE, fetch |-> "raise", ctype |-> <<>>, guess |-> <<>>,
                enc |-> "", html |-> "empty", base |-> "", first |-> "", ascii |-> TRUE]
          [] src = "hello" ->
               [isfile |-> FALSE, fetch |-> "raise", ctype |-> <<>>, guess |-> <<>>,
                enc |-> "", html |-> "p", base |-> "hello", first |-> "h", ascii |-> TRUE]
          [] src = FeedbackMessage ->
               [isfile |-> FALSE, fetch |-> "raise", ctype |-> <<>>, guess |-> <<>>,
                enc |-> "", html |-> "p", base |-> FeedbackMessage, first |-> "A", ascii |-> TRUE]
          [] src = "<h1>hi</h1>" ->
               [isfile |-> FALSE, fetch |-> "raise", ctype |-> <<>>, guess |-> <<>>,
                enc |-> "", html |-> "markup", base |-> "h1>", first |-> "<", ascii |-> TRUE]
          [] src = "pic.png" ->
               [isfile |-> TRUE, fetch |-> "raise", ctype |-> <<>>,
                guess |-> <<"image", "png">>,
                enc |-> "", html |-> "p", base |-> "pic.png", first |-> "p", ascii |-> FALSE]
          [] src = "http://x/y.png" ->
               [isfile |-> FALSE, fetch |-> "typed", ctype |-> <<"image", "png">>,
                guess |-> <<"image", "png">>,
                enc |-> "", html |-> "p", base |-> "y.png", first |-> "h", ascii |-> FALSE]
          [] OTHER ->
               [isfile |-> TRUE, fetch |-> "raise", ctype |-> <<>>,
                guess |-> <<"application", "x-tar">>,
                enc |-> "gzip", html |-> "p", base |-> "a.tar.gz", first |-> "d", ascii |-> FALSE]]

----------------------------------------------------------------------------
(* MIME parts.  A mime object is [main, sub, name, headers, payload];      *)
(* headers and payload are token sequences.                                *)

MIMEText(text, sub) ==
    [main |-> "text", sub |-> sub, name |-> "", headers |-> <<>>, payload |-> <<text>>]

MIMEBase(main, sub, name, content) ==
    [main |-> main, sub |-> sub, name |-> name, headers |-> <<>>, payload |-> content]

\* mime_object.add_header(k, v): one more header line, whatever is there
add_header(m, k, v) == [m EXCEPT !.headers = @ \o <<k, ": ">> \o v \o <<"\n">>]

\* whether the part has a header of name k
HasHeader(m, k) == \E i \in 1..Len(m.headers) : m.headers[i] = k

\* m.get_payload(decode=True): the payload, decoded when the part says it
\* is base64
DecodedPayload(m) ==
    IF HasHeader(m, "Content-Transfer-Encoding")
    THEN SubSeq(m.payload, 2, Len(m.payload) - 1)
    ELSE m.payload

\* email.encoders.encode_base64(m): encodes the decoded payload and adds a
\* Content-Transfer-Encoding header
encode_base64(m) ==
    add_header([m EXCEPT !.payload = <<"base64(">> \o DecodedPayload(m) \o <<")">>],
               "Content-Transfer-Encoding", <<"base64">>)

----------------------------------------------------------------------------
(* Connect._get_mime_object, lines 270-324.                                *)
(* The value is the content object [mime_object, encoding, main_type,      *)
(* sub_type].                                                              *)

\* what _get_mime_object gives when an exception leaves it
Raised(exc) == [raised |-> exc]

IsRaised(r) == DOMAIN r = {"raised"}

\* lines 296-308: the item is literal text.  lx says whether the name lxml
\* is bound; when it is not, line 298 raises the NameError that line 304
\* catches.  When it is, what fromstring raises is not caught.
LiteralText(src, w, lx) ==
    IF lx /\ w.html = "empty"
    THEN Raised("ParserError")
    ELSE IF lx /\ w.html # "p"
    THEN [mime_object |-> MIMEText(src, "html"), encoding |-> "",
          main_type |-> "text", sub_type |-> "html"]
    ELSE [mime_object |-> MIMEText(src, "plain"), encoding |-> "",
          main_type |-> "text", sub_type |-> "plain"]

\* lines 310-324: type is the content-type header split at '/', or <<>> when
\* there is none and the type is guessed from the name
TypedObject(type, encoding, content_name, content) ==
    IF type = <<>> \/ encoding # ""
    THEN [mime_object |-> MIMEBase("application", "octet-stream", content_name, content),
          encoding |-> encoding, main_type |-> "application", sub_type |-> "octet-stream"]
    ELSE [mime_object |-> MIMEBase(type[1], type[2], content_name, content),
          encoding |-> encoding, main_type |-> type[1], sub_type |-> type[2]]

\* lines 280-284 and 290: what was read, under the name of its source
Content(how, src, w) == <<how, src>> \o (IF w.ascii THEN <<>> ELSE <<NonAscii>>)

\* what _get_mime_object reads the content from: the file (lines 278-284),
\* or else an HTTP GET (line 287), which is how it is found out whether the
\* item is a URL
ReadEvents(item, w) ==
    IF w.isfile
    THEN <<Ev("open", "ok", 0, <<item.src>>)>>
    ELSE <<Ev("requests.get", w.fetch, 0, <<item.src>>)>>

GetMimeObjectIn(item, w, lx) ==
    IF w.isfile
    THEN TypedObject(w.guess, w.enc, IF item.isdict THEN item.name ELSE w.base,
                     Content("file:", item.src, w))
    ELSE IF w.fetch \in {"raise", "badtype"}
    THEN LiteralText(item.src, w, lx)
    ELSE IF w.fetch = "typed"
    THEN TypedObject(w.ctype, "", IF item.isdict THEN item.name ELSE w.base,
                     Content("body:", item.src, w))
    ELSE TypedObject(w.guess, w.enc, IF item.isdict THEN item.name ELSE w.base,
                     Content("body:", item.src, w))

get_mime_object(item) == GetMimeObjectIn(item, World[item.src], lxml)

----------------------------------------------------------------------------
(* Connect._prepare_contents, lines 199-216.                               *)
(* With use_cache the object put in the list IS the cached object, so what *)
(* _prepare_message later does to it is done to the cache entry.  The      *)
(* list is therefore a list of references: [cached, key] names the cache   *)
(* entry of key, [~cached, i] the i-th object made in this call.           *)
(* The value is [exc, has_embedded_images, refs, fresh, cache, events].    *)

CacheRef(key) == [cached |-> TRUE, key |-> key, i |-> 0]
FreshRef(i) == [cached |-> FALSE, key |-> "", i |-> i]

Deref(ref, fresh, c) == IF ref.cached THEN c[ref.key] ELSE fresh[ref.i]

\* line 208 or 212 left by an exception
Failed(acc, content, o, k) ==
    [acc EXCEPT !.exc = o.raised,
                !.events = Append(@, Ev("classify", content.src, k, <<>>))]

\* lines 207-210, a cache miss: classify and store
CacheMiss(acc, content, o, k) ==
    [acc EXCEPT !.cache = SetKey(@, content.src, o),
                !.events = Append(@, Ev("classify", content.src, k, <<>>))]

\* lines 210, 213-215: the cached object goes into the list
UseCached(acc, content) ==
    [acc EXCEPT !.has_embedded_images = @ \/ acc.cache[content.src].main_type = "image",
                !.refs = Append(@, CacheRef(content.src))]

\* lines 212-215: a new object goes into the list
UseFresh(acc, content, o, k) ==
    [acc EXCEPT !.events = Append(@, Ev("classify", content.src, k, <<>>)),
                !.has_embedded_images = @ \/ o.main_type = "image",
                !.fresh = Append(@, o),
                !.refs = Append(@, FreshRef(Len(acc.fresh) + 1))]

\* lines 206-215, one turn of the loop
PrepareContent(acc, content, k, use_cache) ==
    IF ~use_cache
    THEN IF IsRaised(get_mime_object(content))
         THEN Failed(acc, content, get_mime_object(content), k)
         ELSE UseFresh(acc, content, get_mime_object(content), k)
    ELSE IF content.isdict THEN [acc EXCEPT !.exc = "TypeError"]  \* a dict is not hashable
    ELSE IF content.src \notin DOMAIN acc.cache
    THEN IF IsRaised(get_mime_object(content))
         THEN Failed(acc, content, get_mime_object(content), k)
         ELSE UseCached(CacheMiss(acc, content, get_mime_object(content), k), content)
    ELSE UseCached(acc, content)

RECURSIVE PrepareContentsLoop(_, _, _, _)
PrepareContentsLoop(items, k, use_cache, acc) ==
    IF k > Len(items) \/ acc.exc # "" THEN acc
    ELSE PrepareContentsLoop(items, k + 1, use_cache,
                             PrepareContent(acc, items[k], k, use_cache))

prepare_contents(contents, use_cache, c) ==
    PrepareContentsLoop(contents.items, 1, use_cache,
        [exc |-> "", has_embedded_images |-> FALSE, refs |-> <<>>, fresh |-> <<>>,
         cache |-> c, events |-> <<>>])

----------------------------------------------------------------------------
(* Connect._add_subject, lines 263-268, and Connect._add_recipients,       *)
(* lines 218-227.  A subject is [kind, items] with kind "none", "str" or   *)
(* "list"; both give the header lines they add to the message.             *)

NoSubject == [kind |-> "none", items |-> <<>>]
StrSubject(s) == [kind |-> "str", items |-> <<s>>]
ListSubject(ss) == [kind |-> "list", items |-> ss]

Header(k, v) == <<k, ": ">> \o v \o <<"\n">>

Falsy(Subject) ==
    \/ Subject.kind = "none"
    \/ Subject.kind = "list" /\ Subject.items = <<>>
    \/ Subject.kind = "str" /\ Subject.items = <<"">>

add_subject(Subject) ==
    IF Falsy(Subject) THEN <<>>
    ELSE IF Subject.kind = "list"
    THEN Header("Subject", JoinWith(" ", Subject.items))
    ELSE Header("Subject", Subject.items)

add_recipients(un, hdr) ==
    Header("user", <<un>>)
    \o Header("To", IF "To" \in DOMAIN hdr THEN hdr["To"] ELSE <<un>>)
    \o (IF "cc" \in DOMAIN hdr THEN Header("Cc", hdr["cc"]) ELSE <<>>)
    \o (IF "bcc" \in DOMAIN hdr THEN Header("Bcc", hdr["bcc"]) ELSE <<>>)

----------------------------------------------------------------------------
(* Connect._prepare_message, lines 166-194, and msg.as_string().           *)
(* The value is [exc, msg_string, alternative, parts, cache, events]:       *)
(* msg_string is msg.as_string(), alternative what is attached to          *)
(* msg_alternative and parts what is attached to msg after it.             *)

Preamble == "You need a MIME enabled mail reader to see this message."

\* the payload as as_string() writes it: as it is when it is encoded, and
\* with each byte that is not ASCII replaced when it is not
PayloadString(m) ==
    IF HasHeader(m, "Content-Transfer-Encoding")
    THEN m.payload
    ELSE [i \in 1..Len(m.payload) |->
             IF m.payload[i] = NonAscii THEN Replacement ELSE m.payload[i]]

\* the serialized form of one attached part
PartString(m) ==
    <<"--part ", m.main, "/", m.sub, "; name=", m.name, "\n">>
    \o m.headers \o PayloadString(m) \o <<"\n">>

\* lines 181-185: the content-ID of the k-th pair of zip(content_objects, contents)
HashedRef(contents, k) ==
    IF contents.kind = "list"
    THEN IF contents.items[k].isdict
         THEN <<contents.items[k].name>>
         ELSE <<"hash(", World[contents.items[k].src].base, ")">>
    ELSE <<"hash(", World[contents.items[1].src].first, ")">>

\* zip pairs the objects with the list's items, or with the characters of
\* the string when contents is one string
ZipLen(contents, refs) ==
    IF contents.kind = "none" THEN 0
    ELSE IF contents.kind = "list" THEN Len(refs)
    ELSE IF contents.items[1].src = "" THEN 0 ELSE 1

ImgFragment(hashed_ref) ==
    <<"--alt text/html\n", "<img src=\"cid:">> \o hashed_ref \o <<"\" title=\"">>
    \o hashed_ref \o <<"\"/>", "\n">>

\* lines 186-189: what is done to an image-typed object
EmbedImage(o, hashed_ref) ==
    [o EXCEPT !.mime_object =
        encode_base64(add_header(@, "Content-ID", <<"<">> \o hashed_ref \o <<">">>))]

\* the object behind ref replaced by o
Store(acc, ref, o) ==
    IF ref.cached
    THEN [acc EXCEPT !.cache = [@ EXCEPT ![ref.key] = o]]
    ELSE [acc EXCEPT !.fresh = [@ EXCEPT ![ref.i] = o]]

\* lines 180-190, one turn of the loop on the object o behind ref
Attach(acc, ref, o, hashed_ref) ==
    IF o.main_type = "image"
    THEN [Store(acc, ref, EmbedImage(o, hashed_ref)) EXCEPT
             !.alternative = @ \o ImgFragment(hashed_ref),
             !.mixed = Append(@, ref)]
    ELSE [acc EXCEPT !.mixed = Append(@, ref)]

\* lines 179-190: acc is [fresh, cache, alternative, mixed]
RECURSIVE AttachLoop(_, _, _, _)
AttachLoop(contents, refs, k, acc) ==
    IF k > ZipLen(contents, refs) THEN acc
    ELSE AttachLoop(contents, refs, k + 1,
                    Attach(acc, refs[k], Deref(refs[k], acc.fresh, acc.cache),
                           HashedRef(contents, k)))

RECURSIVE PartsString(_, _, _)
PartsString(mixed, fresh, c) ==
    IF mixed = <<>> THEN <<>>
    ELSE PartString(Deref(Head(mixed), fresh, c).mime_object)
         \o PartsString(Tail(mixed), fresh, c)

\* lines 171-194 and as_string(): the message, once the parts are attached
Assemble(un, hdr, subject, has_embedded_images, events, a) ==
    [exc |-> "",
     msg_string |->
         add_subject(subject) \o add_recipients(un, hdr)
         \o (IF has_embedded_images THEN <<Preamble, "\n">> ELSE <<>>)
         \o <<"--alternative\n">> \o a.alternative
         \o PartsString(a.mixed, a.fresh, a.cache),
     alternative |-> a.alternative,
     parts |-> [i \in 1..Len(a.mixed) |-> Deref(a.mixed[i], a.fresh, a.cache).mime_object],
     cache |-> a.cache,
     events |-> Append(events, Ev("compose", "", 0, <<>>))]

\* lines 171-194, with pc the value of _prepare_contents
PrepareMessageWith(un, hdr, subject, contents, pc) ==
    IF pc.exc # ""
    THEN [exc |-> pc.exc, msg_string |-> <<>>, alternative |-> <<>>, parts |-> <<>>,
          cache |-> pc.cache, events |-> pc.events]
    ELSE Assemble(un, hdr, subject, pc.has_embedded_images, pc.events,
                  AttachLoop(contents, pc.refs, 1,
                             [fresh |-> pc.fresh, cache |-> pc.cache,
                              alternative |-> <<>>, mixed |-> <<>>]))

\* _prepare_message with the check of lines 168-169 left out
prepare_message_unchecked(closed, un, c, addresses, subject, contents, use_cache) ==
    PrepareMessageWith(un, addresses.hdr, subject, contents,
                       prepare_contents(contents, use_cache, c))

prepare_message(closed, un, c, addresses, subject, contents, use_cache) ==
    IF closed
    THEN [exc |-> "YagConnectionClosed", msg_string |-> <<>>, alternative |-> <<>>,
          parts |-> <<>>, cache |-> c, events |-> <<>>]
    ELSE PrepareMessageWith(un, addresses.hdr, subject, contents,
                            prepare_contents(contents, use_cache, c))

----------------------------------------------------------------------------
(* Connect.send, lines 64-73.                                              *)
(* o is the object: [user, username, starttls, is_closed, smtp, cache,     *)
(* unsent, num_mail_sent]; a is the arguments of the call; script is what  *)
(* the transport answers and in which sleep the call is left.  The value   *)
(* is [o, res, trace].                                                     *)

NoTransmit(o, res, events) ==
    [transmit |-> FALSE, recipients |-> <<>>, msg_string |-> <<>>,
     o |-> o, res |-> res, trace |-> events]

\* lines 71-73 without the test of line 71: a preview is transmitted too
ComposeWith_ignores_preview(o, a, addresses, pm) ==
    IF pm.exc # ""
    THEN NoTransmit([o EXCEPT !.cache = pm.cache], Raise(pm.exc), pm.events)
    ELSE [transmit |-> TRUE, recipients |-> addresses.recipients,
          msg_string |-> pm.msg_string,
          o |-> [o EXCEPT !.cache = pm.cache], res |-> Return("None", <<>>),
          trace |-> pm.events]

\* lines 71-73, with pm the value of _prepare_message
ComposeWith(o, a, addresses, pm) ==
    IF pm.exc # ""
    THEN NoTransmit([o EXCEPT !.cache = pm.cache], Raise(pm.exc), pm.events)
    ELSE IF a.preview_only
    THEN NoTransmit([o EXCEPT !.cache = pm.cache],
                    Return("preview", <<addresses, pm.msg_string>>), pm.events)
    ELSE [transmit |-> TRUE, recipients |-> addresses.recipients,
          msg_string |-> pm.msg_string,
          o |-> [o EXCEPT !.cache = pm.cache], res |-> Return("None", <<>>),
          trace |-> pm.events]

\* lines 68-70, with ra the value of _resolveAddresses
ComposeFor(o, a, ra) ==
    IF ra.exc # "" THEN NoTransmit(o, Raise(ra.exc), <<>>)
    ELSE IF ra.addresses.recipients = <<>> THEN NoTransmit(o, Return("{}", <<>>), <<>>)
    ELSE ComposeWith(o, a, ra.addresses,
                     prepare_message(o.is_closed, o.username, o.cache, ra.addresses,
                                     a.subject, a.contents, a.use_cache))

\* lines 67-72: everything before the transmission.  transmit says whether
\* line 73 is reached, with which recipients and which serialized message.
compose(o, a) ==
    ComposeFor(o, a, resolveAddresses(o.user, o.username, a.to, a.cc, a.bcc,
                                      a.validate_email, a.throw_invalid_exception))

\* what _attempt_send did, put back into the object; attempts is where the
\* loop is when the call is left in a sleep
Transmitted(o, r) ==
    [o |-> [o EXCEPT !.smtp = r.s.smtp, !.unsent = r.s.unsent,
                     !.num_mail_sent = r.s.num_mail_sent],
     res |-> r.res, trace |-> r.s.trace,
     attempts |-> IF r.res.kind = "sleep" THEN r.attempts ELSE 0]

\* the part of the object that _attempt_send reads and writes
Shared(o, events) ==
    [user |-> o.user, smtp |-> o.smtp, unsent |-> o.unsent,
     num_mail_sent |-> o.num_mail_sent, trace |-> events]

\* line 73, for a call that got there
transmit(c, script) ==
    IF ~c.transmit
    THEN [o |-> c.o, res |-> c.res, trace |-> c.trace, attempts |-> 0]
    ELSE Transmitted(c.o,
             attempt_send(Shared(c.o, c.trace), c.recipients, c.msg_string, script, 0))

send(o, a, script) == transmit(compose(o, a), script)

----------------------------------------------------------------------------
(* Connect.feedback, lines 326-328: one send to the author, whose value is *)
(* dropped; what send raises is raised.                                    *)

FeedbackArg(message) ==
    [to |-> Str("kootenpv@gmail.com"), cc |-> None, bcc |-> None,
     subject |-> StrSubject("Yagmail feedback"), contents |-> StrContents(message),
     preview_only |-> FALSE, use_cache |-> FALSE,
     validate_email |-> TRUE, throw_invalid_exception |-> FALSE]

\* line 328 after the send, with r the value of send
Fedback(r) ==
    [r EXCEPT !.res = IF @.kind = "return" THEN Return("None", <<>>) ELSE @]

feedback(o, message, script) == Fedback(send(o, FeedbackArg(message), script))

----------------------------------------------------------------------------
(* The inputs the model draws from *)

\* Connect(user, ...): a string, or a dict {address: name}; lines 235-242
UserArgs == {[user |-> "me@x.com", username |-> "Me"]}

StartTlsArgs == {"True"}

Other == [kind |-> "other", items |-> <<>>]

SendArg(to, cc, contents, preview_only, use_cache, validate_email, throw) ==
    [to |-> to, cc |-> cc, bcc |-> None, subject |-> StrSubject("hi"),
     contents |-> contents, preview_only |-> preview_only, use_cache |-> use_cache,
     validate_email |-> validate_email, throw_invalid_exception |-> throw]

Pic == ListContents(<<Item("pic.png")>>)

\* an attachment that is not an image and not ASCII
Archive == ListContents(<<Item("docs/a.tar.gz")>>)

\* text that is text/html where lxml is there and text/plain where it is not
Markup == ListContents(<<Item("<h1>hi</h1>")>>)

\* the calls of send the session is driven with; a transmitted message with
\* contents is the one of feedback, and the one with the archive is not ASCII
SendArgs ==
    {SendArg(Str("a@x.com"), None, NoContents, FALSE, FALSE, TRUE, FALSE),
     SendArg(Str("a@x.com"), None, NoContents, TRUE, FALSE, TRUE, FALSE),
     SendArg(List(<<"b@x.com", "bad">>), None, Pic, TRUE, TRUE, TRUE, FALSE),
     SendArg(List(<<"b@x.com", "bad">>), None, NoContents, FALSE, FALSE, TRUE, TRUE),
     SendArg(List(<<"bad">>), None, Pic, FALSE, TRUE, TRUE, FALSE),
     SendArg(List(<<"bad", "worse@">>), None, NoContents, FALSE, FALSE, TRUE, FALSE),
     SendArg(Str("a@x.com"), None, Archive, FALSE, FALSE, TRUE, FALSE),
     SendArg(Str("a@x.com"), None, Markup, TRUE, FALSE, TRUE, FALSE),
     SendArg(Other, None, NoContents, FALSE, FALSE, TRUE, FALSE)}

\* a step that fails ends the call, so the steps after it are left TRUE
LoginArgs ==
    {a \in [password : {"given", "none"}, keyring : {"raw"},
            connect : BOOLEAN, tls : BOOLEAN, auth : BOOLEAN] :
        /\ ~a.connect => a.tls /\ a.auth /\ a.password = "given"
        /\ ~a.tls => a.auth /\ a.password = "given"}

\* how often a cached part has been through encode_base64
Encodings(o) ==
    Cardinality({i \in 1..Len(o.mime_object.headers) :
                    o.mime_object.headers[i] = "Content-Transfer-Encoding"})

\* The scripts a call of send can tell apart: a call that never reaches
\* the transport reads none.
ScriptsFor(c, may) ==
    IF c.transmit
    THEN ScriptsFrom(c.o.smtp, IsAscii(c.msg_string), 1, may)
    ELSE {AllOk}

----------------------------------------------------------------------------
(* The state machine *)

NoArgs == <<>>

Init ==
    \E ua \in UserArgs, tls \in StartTlsArgs :
        LET l == login(ua.user, FALSE, "live", tls,
                       [password |-> "given", keyring |-> "raw",
                        connect |-> TRUE, tls |-> TRUE, auth |-> TRUE])
        IN /\ user = l.user
           /\ username = ua.username
           /\ starttls = tls
           /\ is_closed = l.is_closed
           /\ smtp = l.smtp
           /\ cache = NoHeaders
           /\ unsent = <<>>
           /\ num_mail_sent = 0
           /\ alive = TRUE
           /\ asleep = <<>>
           /\ yields = 0
           /\ lxml \in BOOLEAN
           /\ call = [op |-> "__init__", args |-> NoArgs]
           /\ result = l.res
           /\ trace = l.trace

Object ==
    [user |-> user, username |-> username, starttls |-> starttls,
     is_closed |-> is_closed, smtp |-> smtp,
     cache |-> cache, unsent |-> unsent, num_mail_sent |-> num_mail_sent]

\* A call that waits in time.sleep: the call, the pair it is sending, how
\* many attempts it has made, its trace so far, and for send_unsent the turn
\* i of the loop it is in and the number n of turns.
Frame(c, recipients, msg_string, attempts, events, i, n) ==
    [call |-> c, recipients |-> recipients, msg_string |-> msg_string,
     attempts |-> attempts, trace |-> events, i |-> i, n |-> n]

\* whether other threads may get their turn in one more sleep
MayYield == yields < MaxYields

\* the mails at hand: sent, waiting in unsent, or held by a sleeping call
Mails == num_mail_sent + Len(unsent) + Len(asleep)

\* the step ends with the call c ended (frames are the other sleepers)
Ended(c, frames, res, events) ==
    /\ yields' = yields
    /\ asleep' = frames
    /\ call' = c
    /\ result' = res
    /\ trace' = events

\* the step ends with the call c in time.sleep
Slept(c, frames, f, events) ==
    /\ yields' = yields + 1
    /\ asleep' = Append(frames, f)
    /\ call' = [op |-> "sleep", args |-> c]
    /\ result' = Sleeping
    /\ trace' = events

Send ==
    /\ alive
    /\ Mails < MaxMail
    /\ \E a \in SendArgs : \E c \in {compose(Object, a)} :
        \E script \in ScriptsFor(c, MayYield) : \E r \in {transmit(c, script)} :
            /\ \A k \in DOMAIN r.o.cache : Encodings(r.o.cache[k]) <= MaxEncode
            /\ cache' = r.o.cache
            /\ smtp' = r.o.smtp
            /\ unsent' = r.o.unsent
            /\ num_mail_sent' = r.o.num_mail_sent
            /\ IF r.res.kind = "sleep"
               THEN Slept([op |-> "send", args |-> a], asleep,
                          Frame([op |-> "send", args |-> a], c.recipients, c.msg_string,
                                r.attempts, r.trace, 0, 0),
                          r.trace)
               ELSE Ended([op |-> "send", args |-> a], asleep, r.res, r.trace)
    /\ UNCHANGED <<user, username, starttls, is_closed, alive, lxml>>

\* feedback(): called with the default message
FeedbackMessages == {FeedbackMessage}

Feedback ==
    /\ alive
    /\ Mails < MaxMail
    /\ \E m \in FeedbackMessages : \E c \in {compose(Object, FeedbackArg(m))} :
        \E script \in ScriptsFor(c, MayYield) :
          \E r \in {Fedback(transmit(c, script))} :
            /\ cache' = r.o.cache
            /\ smtp' = r.o.smtp
            /\ unsent' = r.o.unsent
            /\ num_mail_sent' = r.o.num_mail_sent
            /\ IF r.res.kind = "sleep"
               THEN Slept([op |-> "feedback", args |-> [message |-> m]], asleep,
                          Frame([op |-> "feedback", args |-> [message |-> m]],
                                c.recipients, c.msg_string, r.attempts, r.trace, 0, 0),
                          r.trace)
               ELSE Ended([op |-> "feedback", args |-> [message |-> m]], asleep,
                          r.res, r.trace)
    /\ UNCHANGED <<user, username, starttls, is_closed, alive, lxml>>

\* the step of a send_unsent whose loop gave r
UnsentStep(c, frames, r) ==
    /\ smtp' = r.s.smtp
    /\ unsent' = r.s.unsent
    /\ num_mail_sent' = r.s.num_mail_sent
    /\ IF r.res.kind = "sleep"
       THEN Slept(c, frames,
                  Frame(c, r.recipients, r.msg_string, r.attempts, r.s.trace, r.i, r.n),
                  r.s.trace)
       ELSE Ended(c, frames, r.res, r.s.trace)

SendUnsent ==
    /\ alive
    /\ \E scripts \in ScriptSeqs(Shared(Object, <<>>), MayYield) :
        \E r \in {send_unsent(Shared(Object, <<>>), scripts)} :
            UnsentStep([op |-> "send_unsent", args |-> NoArgs], asleep, r)
    /\ UNCHANGED <<user, username, starttls, is_closed, cache, alive, lxml>>

\* line 86 returns in a send or a feedback: the loop of _attempt_send goes on
\* from where it was, on the object as the other threads left it
WakeSend(f, frames) ==
    \E script \in ScriptsAfter(smtp, IsAscii(f.msg_string), f.attempts, MayYield) :
      \E r \in {attempt_send(Shared(Object, f.trace), f.recipients, f.msg_string,
                              script, f.attempts)} :
        /\ smtp' = r.s.smtp
        /\ unsent' = r.s.unsent
        /\ num_mail_sent' = r.s.num_mail_sent
        /\ IF r.res.kind = "sleep"
           THEN Slept(f.call, frames, [f EXCEPT !.attempts = r.attempts,
                                                !.trace = r.s.trace], r.s.trace)
           ELSE Ended([op |-> "wake", args |-> f.call], frames,
                      IF f.call.op = "feedback" /\ r.res.kind = "return"
                      THEN Return("None", <<>>) ELSE r.res,
                      r.s.trace)

\* line 86 returns in a send_unsent: the entry it holds, then the turns left
WakeUnsent(f, frames) ==
    \E scripts \in ScriptSeqsAfter(Shared(Object, f.trace), f.recipients, f.msg_string,
                                   f.i, f.n, f.attempts, MayYield) :
      \E r \in {AttemptUnsent(Shared(Object, f.trace), f.recipients, f.msg_string,
                               scripts, f.i, f.n, f.attempts)} :
        UnsentStep(IF r.res.kind = "sleep" THEN f.call
                   ELSE [op |-> "wake", args |-> f.call], frames, r)

\* a sleeping call is taken up again
Wake ==
    /\ alive
    /\ \E j \in 1..Len(asleep) :
          IF asleep[j].call.op = "send_unsent"
          THEN WakeUnsent(asleep[j], RemoveAt(asleep, j))
          ELSE WakeSend(asleep[j], RemoveAt(asleep, j))
    /\ UNCHANGED <<user, username, starttls, is_closed, cache, alive, lxml>>

Close ==
    /\ alive
    /\ LET r == close(smtp)
       IN /\ is_closed' = r.is_closed
          /\ smtp' = r.smtp
          /\ call' = [op |-> "close", args |-> NoArgs]
          /\ result' = r.res
          /\ trace' = r.trace
    /\ UNCHANGED <<user, username, starttls, cache, unsent, num_mail_sent, alive,
                   yields, asleep, lxml>>

\* login with its inputs drawn from args
LoginFrom(args) ==
    /\ alive
    /\ \E a \in args :
        LET r == login(user, is_closed, smtp, starttls, a)
        IN /\ Prompts(user, a) => a.auth   \* the call ends before auth is read
           /\ user' = r.user
           /\ is_closed' = r.is_closed
           /\ smtp' = r.smtp
           /\ call' = [op |-> "login", args |-> a]
           /\ result' = r.res
           /\ trace' = r.trace
    /\ UNCHANGED <<username, starttls, cache, unsent, num_mail_sent, alive,
                   yields, asleep, lxml>>

Login == LoginFrom(LoginArgs)

\* Connect.__del__, lines 330-333: close(), then the object is gone
\* (a call that sleeps holds the object, so none does)
Del ==
    /\ alive
    /\ asleep = <<>>
    /\ LET r == close(smtp)
       IN /\ is_closed' = r.is_closed
          /\ smtp' = r.smtp
          /\ call' = [op |-> "__del__", args |-> NoArgs]
          /\ result' = r.res
          /\ trace' = r.trace
    /\ alive' = FALSE
    /\ UNCHANGED <<user, username, starttls, cache, unsent, num_mail_sent,
                   yields, asleep, lxml>>

Next == Send \/ Feedback \/ SendUnsent \/ Wake \/ Close \/ Login \/ Del

Spec == Init /\ [][Next]_vars

----------------------------------------------------------------------------
(* _resolveAddresses on its own: the initial state holds the arguments,    *)
(* the one action applies the method to them.                              *)

Addresses == {"a@x.com", "b@x.com", "bad", "worse@"}

Alias(a) ==
    CASE a = "a@x.com" -> "Ann"
      [] a = "b@x.com" -> "Bob"
      [] a = "bad" -> "Bad"
      [] OTHER -> "Worse"

AddrLists == UNION {[1..n -> Addresses] : n \in 0..MaxAddrs}

\* a dict has each key once
AddrDicts ==
    {[i \in 1..Len(as) |-> [addr |-> as[i], name |-> Alias(as[i])]] :
        as \in {l \in AddrLists : \A i, j \in 1..Len(l) : l[i] = l[j] => i = j}}

ToArgs ==
    {None, Other} \cup {Str(a) : a \in Addresses} \cup {List(as) : as \in AddrLists}
    \cup {Dict(d) : d \in AddrDicts}

CcArgs == {None, Str("b@x.com"), List(<<"bad", "a@x.com">>)}

BccArgs == {None, Dict(<<[addr |-> "worse@", name |-> "Worse"]>>)}

ResolveUsers ==
    {[user |-> "me@x.com", username |-> "me@x.com"],
     [user |-> "me@x.com", username |-> "Me"]}

ResolveArgs ==
    [to : ToArgs, cc : CcArgs, bcc : BccArgs,
     validate_email : BOOLEAN, throw_invalid_exception : BOOLEAN]

InitResolve ==
    /\ \E ua \in ResolveUsers : user = ua.user /\ username = ua.username
    /\ starttls = "True"
    /\ is_closed = FALSE
    /\ smtp = "live"
    /\ cache = NoHeaders
    /\ unsent = <<>>
    /\ num_mail_sent = 0
    /\ alive = TRUE
    /\ asleep = <<>>
    /\ yields = 0
    /\ lxml \in BOOLEAN
    /\ \E a \in ResolveArgs : call = [op |-> "arguments", args |-> a]
    /\ result = Return("None", <<>>)
    /\ trace = <<>>

Resolve ==
    /\ call.op = "arguments"
    /\ call' = [op |-> "_resolveAddresses", args |-> call.args]
    /\ \E ra \in {resolveAddresses(user, username, call.args.to, call.args.cc,
                                   call.args.bcc, call.args.validate_email,
                                   call.args.throw_invalid_exception)} :
        result' = IF ra.exc # "" THEN Raise(ra.exc)
                  ELSE Return("addresses", <<ra.addresses>>)
    /\ UNCHANGED <<user, username, starttls, is_closed, smtp, cache, unsent,
                   num_mail_sent, alive, yields, asleep, lxml, trace>>

SpecResolve == InitResolve /\ [][Resolve]_vars

----------------------------------------------------------------------------
(* login on its own: entered from the constructor (line 42) or called on   *)
(* an object that exists, open or closed, for each value of smtp_starttls, *)
(* each way the password is found and each answer of the transport.        *)

LoginUsers == {"me", "me@x.com"}

StartTlsValues == {"True", "False", "None"}

\* the keyring is read only for password None; a step that fails ends the
\* call, so the steps after it are left TRUE
LoginInputs ==
    {a \in [password : {"given", "none"}, keyring : {"raw", "full", "absent"},
            connect : BOOLEAN, tls : BOOLEAN, auth : BOOLEAN] :
        /\ a.password = "given" => a.keyring = "raw"
        /\ ~a.connect => a.tls /\ a.auth /\ a.password = "given"
        /\ ~a.tls => a.auth /\ a.password = "given"}

InitLogin ==
    /\ user \in LoginUsers
    /\ username = user
    /\ starttls \in StartTlsValues
    /\ \E c \in BOOLEAN : is_closed = c /\ smtp = IF c THEN "quit" ELSE "live"
    /\ cache = NoHeaders
    /\ unsent = <<>>
    /\ num_mail_sent = 0
    /\ alive = TRUE
    /\ asleep = <<>>
    /\ yields = 0
    /\ lxml \in BOOLEAN
    /\ call = [op |-> "__init__", args |-> NoArgs]
    /\ result = Return("None", <<>>)
    /\ trace = <<>>

LoginAny == LoginFrom(LoginInputs)

SpecLogin == InitLogin /\ [][LoginAny]_vars

----------------------------------------------------------------------------
(* _prepare_message on its own: the initial state holds the contents and   *)
(* use_cache, the one action builds the message for them.                  *)

BuildItems ==
    {Item(src) : src \in DOMAIN World}
    \cup {Named("pic.png", "logo"), Named("hello", "note")}

ContentsArgs ==
    {NoContents, StrContents(""), StrContents("hello"), StrContents("pic.png")}
    \cup {ListContents(l) : l \in UNION {[1..n -> BuildItems] : n \in 0..MaxItems}}

BuildArgs == [contents : ContentsArgs, use_cache : BOOLEAN]

BuildAddresses ==
    [recipients |-> <<"a@x.com">>, hdr |-> SetKey(NoHeaders, "To", <<"a@x.com">>)]

InitBuild ==
    /\ user = "me@x.com"
    /\ username = "Me"
    /\ starttls = "True"
    /\ \E c \in BOOLEAN : is_closed = c /\ smtp = IF c THEN "quit" ELSE "live"
    /\ cache = NoHeaders
    /\ unsent = <<>>
    /\ num_mail_sent = 0
    /\ alive = TRUE
    /\ asleep = <<>>
    /\ yields = 0
    /\ lxml \in BOOLEAN
    /\ \E a \in BuildArgs : call = [op |-> "arguments", args |-> a]
    /\ result = Return("None", <<>>)
    /\ trace = <<>>

Build ==
    /\ call.op = "arguments"
    /\ call' = [op |-> "_prepare_message", args |-> call.args]
    /\ \E pm \in {prepare_message(is_closed, username, cache, BuildAddresses,
                                  StrSubject("hi"), call.args.contents,
                                  call.args.use_cache)} :
        /\ cache' = pm.cache
        /\ trace' = pm.events
        /\ result' = IF pm.exc # "" THEN Raise(pm.exc) ELSE Return("msg", <<pm>>)
    /\ UNCHANGED <<user, username, starttls, is_closed, smtp, unsent,
                   num_mail_sent, alive, yields, asleep, lxml>>

SpecBuild == InitBuild /\ [][Build]_vars

----------------------------------------------------------------------------
(* _get_mime_object on its own: the initial state holds the item and what  *)
(* the file system, the HTTP fetch, mimetypes and the parser answer for    *)
(* it; the one action classifies the item.                                 *)

ClassifyItems == {Item("http://x/y.png"), Named("http://x/y.png", "logo"), Item("")}

\* a content-type header is there exactly when the fetch is "typed",
\* whatever the name of the item lets mimetypes guess; the empty string is
\* no file and no URL, and the parser has no document for it
ClassifyWorlds ==
    {World[""]} \cup
    {w \in [isfile : BOOLEAN,
             fetch : {"raise", "typed", "badtype", "untyped"},
             ctype : {<<>>, <<"image", "png">>, <<"text", "html">>},
             guess : {<<>>, <<"image", "png">>, <<"application", "x-tar">>},
             enc : {"", "gzip"},
             html : {"p", "markup"},
             base : {"y.png"},
             first : {"h"},
             ascii : {FALSE}] :
        (w.fetch = "typed") <=> (w.ctype # <<>>)}

InitClassify ==
    /\ user = "me@x.com"
    /\ username = "Me"
    /\ starttls = "True"
    /\ is_closed = FALSE
    /\ smtp = "live"
    /\ cache = NoHeaders
    /\ unsent = <<>>
    /\ num_mail_sent = 0
    /\ alive = TRUE
    /\ asleep = <<>>
    /\ yields = 0
    /\ lxml \in BOOLEAN
    /\ \E i \in ClassifyItems : \E w \in ClassifyWorlds :
          /\ (i.src = "") <=> (w = World[""])
          /\ call = [op |-> "arguments", args |-> [item |-> i, world |-> w]]
    /\ result = Return("None", <<>>)
    /\ trace = <<>>

Classify ==
    /\ call.op = "arguments"
    /\ call' = [op |-> "_get_mime_object", args |-> call.args]
    /\ \E o \in {GetMimeObjectIn(call.args.item, call.args.world, lxml)} :
        result' = IF IsRaised(o) THEN Raise(o.raised) ELSE Return("content_object", <<o>>)
    /\ trace' = ReadEvents(call.args.item, call.args.world)
    /\ UNCHANGED <<user, username, starttls, is_closed, smtp, cache, unsent,
                   num_mail_sent, alive, yields, asleep, lxml>>

SpecClassify == InitClassify /\ [][Classify]_vars

----------------------------------------------------------------------------
(* What the properties read off a call *)

IsSendmail(e) == e.ev = "sendmail"
IsSleep(e) == e.ev = "sleep"

\* the sendmail calls of a trace, in order
Sendmails(tr) == SelectSeq(tr, IsSendmail)

\* the durations slept, in order
Sleeps(tr) == [i \in 1..Len(SelectSeq(tr, IsSleep)) |-> SelectSeq(tr, IsSleep)[i].n]

AllDisconnects(sm) == \A i \in 1..Len(sm) : sm[i].out = "disc"

NoReject(tr) == \A i \in 1..Len(tr) : tr[i].out # "reject"

\* the pairs _attempt_send was called with, in order: each call starts with
\* attempt number 1
IsFirstAttempt(e) == e.ev = "sendmail" /\ e.n = 1
Invocations(tr) ==
    [i \in 1..Len(SelectSeq(tr, IsFirstAttempt)) |-> SelectSeq(tr, IsFirstAttempt)[i].item]

\* the pairs whose last attempt was a disconnect, in order
IsLastFailure(e) == e.ev = "sendmail" /\ e.n = MaxAttempts /\ e.out = "disc"
FailedEntries(tr) ==
    [i \in 1..Len(SelectSeq(tr, IsLastFailure)) |-> SelectSeq(tr, IsLastFailure)[i].item]

Count(s, e) == Cardinality({i \in 1..Len(s) : s[i] = e})

Delivered(tr, e) ==
    Cardinality({i \in 1..Len(tr) :
                    tr[i].ev = "sendmail" /\ tr[i].out = "ok" /\ tr[i].item = e})

\* what _resolveAddresses makes of the arguments a in the current state
Resolved(a) ==
    resolveAddresses(user, username, a.to, a.cc, a.bcc,
                     a.validate_email, a.throw_invalid_exception)

NonEmptyRecipients(a) == Resolved(a).exc = "" /\ Resolved(a).addresses.recipients # <<>>

\* every address asked for, in the order to, cc, bcc
Requested(a) == Addrs(a.to) \o Addrs(a.cc) \o Addrs(a.bcc)

----------------------------------------------------------------------------
(* C1.  A send on an open session whose recipient set is not empty calls   *)
(* the transport at most 3 times, always with the resolved recipients and  *)
(* the same message, and never again after a success; when all 3 attempts  *)
(* end in a disconnect, the pair (recipients, message) is appended once to *)
(* the end of unsent and the call returns False without raising.  This for *)
(* every answer of the transport, for the send that runs in one step, and  *)
(* for the send that other threads overtake in its sleeps: what it does    *)
(* when it falls asleep and when it is taken up again, whatever the other  *)
(* threads called in between.                                              *)

\* the step ends a call of one of ops, at once or after sleeps
Ends(ops) == call'.op \in ops \/ (call'.op = "wake" /\ call'.args.op \in ops)

\* the step leaves a call of one of ops in a sleep
FallsAsleep(ops) == call'.op = "sleep" /\ call'.args.op \in ops

\* the sendmail calls sm are attempts in a row for one pair, none after a
\* success
OneRetryLoop(sm) ==
    /\ Len(sm) \in 1..MaxAttempts
    /\ \A i \in 1..Len(sm) :
          /\ sm[i].n = i
          /\ sm[i].item = sm[1].item
          /\ sm[i].out = "ok" => i = Len(sm)

C1_RetryThenQueue ==
    [][/\ (/\ call'.op = "send"
           /\ ~is_closed
           /\ ~call'.args.preview_only
           /\ NonEmptyRecipients(call'.args))
          =>
          \E sm \in {Sendmails(trace')} :
              /\ Len(sm) \in 1..MaxAttempts
              /\ \A i \in 1..Len(sm) :
                    /\ sm[i].item = sm[1].item
                    /\ sm[i].out = "ok" => i = Len(sm)
              /\ sm[1].item[1] = Resolved(call'.args).addresses.recipients
              /\ (Len(sm) = MaxAttempts /\ AllDisconnects(sm)) =>
                    /\ unsent' = Append(unsent, sm[1].item)
                    /\ result' = Return("False", <<>>)
       /\ FallsAsleep({"send"}) =>
             /\ OneRetryLoop(Sendmails(trace'))
             /\ AllDisconnects(Sendmails(trace'))
             /\ unsent' = unsent
             /\ Len(asleep') > Len(asleep) =>     \* the send was called in this step
                   /\ ~is_closed
                   /\ Sendmails(trace')[1].item[1]
                         = Resolved(call'.args.args).addresses.recipients
       /\ (call'.op = "wake" /\ call'.args.op = "send") =>
             /\ OneRetryLoop(Sendmails(trace'))
             /\ IF Len(Sendmails(trace')) = MaxAttempts /\ AllDisconnects(Sendmails(trace'))
                THEN /\ unsent' = Append(unsent, Sendmails(trace')[1].item)
                     /\ result' = Return("False", <<>>)
                ELSE unsent' = unsent]_vars

\* a send that was disconnected three times, the second time on the handle
\* of a login another thread made while it slept, and that found the
\* message of another thread's send in unsent when it queued its own
C1_Witness ==
    /\ call.op = "wake"
    /\ call.args.op = "send"
    /\ Len(Sendmails(trace)) = MaxAttempts
    /\ AllDisconnects(Sendmails(trace))
    /\ Sendmails(trace)[1].on = "live"
    /\ Sendmails(trace)[2].on = "live"
    /\ result = Return("False", <<>>)
    /\ Len(unsent) = 2
    /\ unsent[Len(unsent)] = Sendmails(trace)[1].item

----------------------------------------------------------------------------
(* C2.  A send that is disconnected 3 times sleeps exactly twice, 3 units  *)
(* after the first attempt and 6 after the second, and not after the third *)
(* and last attempt: 9 units in all.                                       *)

C2_TwoSleeps ==
    (/\ call.op = "send"
     /\ Len(Sendmails(trace)) = MaxAttempts
     /\ AllDisconnects(Sendmails(trace)))
    =>
    /\ Sleeps(trace) = <<BackoffUnit, 2 * BackoffUnit>>
    /\ trace[Len(trace)].ev = "sendmail"

----------------------------------------------------------------------------
(* C3.  One call of send_unsent hands each entry that was in unsent when   *)
(* the call started to _attempt_send exactly once, in queue order.  Stated *)
(* for the calls in which the transport rejects nothing, so that no        *)
(* exception of the transport ends the call early.                         *)

C3_EachEntryOnceFifo ==
    [][(call'.op = "send_unsent" /\ NoReject(trace'))
       => Invocations(trace') = unsent]_vars

----------------------------------------------------------------------------
(* C4.  When send_unsent is over and the transport rejected nothing, the   *)
(* call has returned without raising and unsent holds exactly the entries  *)
(* whose retry failed again, in the order they failed: none when every     *)
(* transmission succeeded.                                                 *)

C4_QueueIsTheFailures ==
    (call.op = "send_unsent" /\ NoReject(trace))
    =>
    /\ result.kind = "return"
    /\ unsent = FailedEntries(trace)

----------------------------------------------------------------------------
(* C5.  No call takes an entry out of unsent unless a transmission of that *)
(* entry succeeded in the call: each entry is in unsent (or held by a      *)
(* send_unsent that sleeps) after the step at least as often as before,    *)
(* less the number of its successful transmissions.                        *)

\* how often the pair e is held by a send_unsent that sleeps
Held(frames, e) ==
    Cardinality({j \in 1..Len(frames) :
                    /\ frames[j].call.op = "send_unsent"
                    /\ <<frames[j].recipients, frames[j].msg_string>> = e})

C5_NeverDropped ==
    [][\A e \in Range(unsent) :
          Count(unsent', e) + Held(asleep', e) + Delivered(trace', e)
              >= Count(unsent, e) + Held(asleep, e)]_vars

----------------------------------------------------------------------------
(* C6.  When the transport refuses a message in send (called directly or   *)
(* by feedback) with an error that is not a disconnect (a rejection by the *)
(* server, with the connection left up or closed by it, or a message that  *)
(* sendmail cannot encode), that attempt is the last thing the call does   *)
(* (no further attempt, no sleep after it), the error reaches the caller,  *)
(* and the call leaves unsent and num_mail_sent as they are: in the step   *)
(* that ends it and, for a call that other threads overtake in its sleeps, *)
(* in every step in which it falls asleep.                                 *)

IsRefusal(e) == e.out \in {"reject", "unencodable"}

NoRefusal(tr) == \A i \in 1..Len(tr) : ~IsRefusal(tr[i])

C6_RejectSurfaces ==
    [][/\ (Ends({"send", "feedback"}) /\ ~NoRefusal(trace'))
          =>
          /\ trace'[Len(trace')].ev = "sendmail"
          /\ IsRefusal(trace'[Len(trace')])
          /\ NoRefusal(SubSeq(trace', 1, Len(trace') - 1))
          /\ result' = IF trace'[Len(trace')].out = "reject"
                       THEN Raise("SMTPException")
                       ELSE Raise("UnicodeEncodeError")
          /\ unsent' = unsent
          /\ num_mail_sent' = num_mail_sent
       /\ FallsAsleep({"send", "feedback"}) =>
             /\ NoRefusal(trace')
             /\ unsent' = unsent
             /\ num_mail_sent' = num_mail_sent]_vars

\* a send rejected at its second attempt, on the handle of the login that
\* another thread made while it slept after one disconnect, with the mail
\* that thread sent counted and its own not
C6_Witness ==
    /\ call.op = "wake"
    /\ call.args.op = "send"
    /\ result = Raise("SMTPException")
    /\ Len(Sendmails(trace)) = 2
    /\ Sendmails(trace)[1].out = "disc"
    /\ Sendmails(trace)[2].on = "live"
    /\ Sendmails(trace)[2].out = "reject"
    /\ Sleeps(trace) = <<BackoffUnit>>
    /\ num_mail_sent = 1

----------------------------------------------------------------------------
(* C7.  close (and the close of __del__) on a session that is already      *)
(* closed does nothing: it raises no error, calls nothing on the           *)
(* transport, and the session stays closed.                                *)

C7_CloseIdempotent ==
    [][(is_closed /\ call'.op \in {"close", "__del__"})
       =>
       /\ result'.kind = "return"
       /\ trace' = <<>>
       /\ is_closed']_vars

----------------------------------------------------------------------------
(* C8.  As claimed: every send on a closed session fails with              *)
(* YagConnectionClosed and calls nothing (no classification, no            *)
(* composition, no transport call).                                        *)

C8_ClosedAlwaysRefuses ==
    (call.op = "send" /\ is_closed)
    => (result = Raise("YagConnectionClosed") /\ trace = <<>>)

(* C8, amended.  A send on a closed session calls nothing.  It ends as     *)
(* _resolveAddresses decides when that raises (the address error) or       *)
(* leaves no recipient (the empty result {}); with a recipient left it     *)
(* fails with YagConnectionClosed.  The send that follows a successful     *)
(* login is not refused as closed.                                         *)

C8_ClosedRefusesNonEmpty ==
    [][/\ (call'.op = "send" /\ is_closed) =>
            /\ trace' = <<>>
            /\ result' = IF Resolved(call'.args).exc # ""
                         THEN Raise(Resolved(call'.args).exc)
                         ELSE IF Resolved(call'.args).addresses.recipients = <<>>
                         THEN Return("{}", <<>>)
                         ELSE Raise("YagConnectionClosed")
       /\ (call.op = "login" /\ result.kind = "return" /\ call'.op = "send") =>
            result' # Raise("YagConnectionClosed")]_vars

\* a send with a recipient, refused on a closed session
C8_Witness ==
    /\ call.op = "send"
    /\ is_closed
    /\ NonEmptyRecipients(call.args)
    /\ result = Raise("YagConnectionClosed")

----------------------------------------------------------------------------
(* C9.  With validation on and strict mode off, the recipients that        *)
(* _resolveAddresses returns for a given `to` are the valid ones among the *)
(* addresses asked for, in their order, and no other.                      *)

C9_OnlyValidInOrder ==
    (/\ call.op = "_resolveAddresses"
     /\ call.args.to.kind \in {"str", "list", "dict"}
     /\ call.args.validate_email
     /\ ~call.args.throw_invalid_exception
     /\ result.kind = "return")
    =>
    result.payload[1].recipients = SelectSeq(Requested(call.args), validate_email_with_regex)

----------------------------------------------------------------------------
(* C10.  A send with validation on and strict mode off whose addresses are *)
(* all invalid returns the empty result {} without raising, calls nothing  *)
(* (no classification, no composition, no transport call) and leaves       *)
(* unsent, cache and num_mail_sent as they were.                           *)

AllInvalid(a) ==
    /\ a.to.kind \in {"str", "list", "dict"}
    /\ a.to.items # <<>>
    /\ \A i \in 1..Len(Requested(a)) : ~validate_email_with_regex(Requested(a)[i])

C10_NothingToSend ==
    [][(/\ call'.op = "send"
        /\ call'.args.validate_email
        /\ ~call'.args.throw_invalid_exception
        /\ AllInvalid(call'.args))
       =>
       /\ result' = Return("{}", <<>>)
       /\ trace' = <<>>
       /\ UNCHANGED <<unsent, cache, num_mail_sent>>]_vars

----------------------------------------------------------------------------
(* C11.  When `to` is absent, the recipients that _resolveAddresses        *)
(* returns are the user's own address once, then the cc addresses, then    *)
(* the bcc addresses, whether one or both of cc and bcc are given: no      *)
(* display name and no second copy of the user.  Stated for the calls      *)
(* made with validation off, in which no address is dropped.               *)

C11_SelfOnceThenCcBcc ==
    (/\ call.op = "_resolveAddresses"
     /\ call.args.to.kind = "none"
     /\ ~call.args.validate_email
     /\ result.kind = "return")
    =>
    result.payload[1].recipients
        = <<user>> \o Addrs(call.args.cc) \o Addrs(call.args.bcc)

----------------------------------------------------------------------------
(* C12.  For `to` given in an accepted form, the header lines that         *)
(* _add_recipients writes from the resolved addresses are: To with the     *)
(* display string of `to`, Cc with that of `cc` when cc is given, Bcc with *)
(* that of `bcc` when bcc is given; cc and bcc never change To.            *)

\* the display string of an address argument: the string, or the names
\* joined with "; "
Display(x) == Join(Names(x))

HeaderIfGiven(k, x) == IF x.kind = "none" THEN <<>> ELSE Header(k, Display(x))

C12_OwnHeaderOnly ==
    (/\ call.op = "_resolveAddresses"
     /\ call.args.to.kind \in {"str", "list", "dict"}
     /\ call.args.cc.kind # "other"
     /\ call.args.bcc.kind # "other"
     /\ result.kind = "return")
    =>
    add_recipients(username, result.payload[1].hdr)
        = Header("user", <<username>>)
          \o Header("To", Display(call.args.to))
          \o HeaderIfGiven("Cc", call.args.cc)
          \o HeaderIfGiven("Bcc", call.args.bcc)

----------------------------------------------------------------------------
(* C13.  For `to` given as a string, a list or tuple, or a dict, holding   *)
(* only valid addresses, and cc and bcc absent, _resolveAddresses returns  *)
(* and the recipients are exactly the given addresses (the string; the     *)
(* elements in input order, duplicates kept; the keys of the dict), the    *)
(* user's own address not among them unless it was given.                  *)

AllValid(as) == \A i \in 1..Len(as) : validate_email_with_regex(as[i])

C13_ToIsTheRecipients ==
    (/\ call.op = "_resolveAddresses"
     /\ call.args.to.kind \in {"str", "list", "dict"}
     /\ call.args.cc.kind = "none"
     /\ call.args.bcc.kind = "none"
     /\ AllValid(Addrs(call.args.to)))
    =>
    /\ result.kind = "return"
    /\ result.payload[1].recipients = Addrs(call.args.to)

\* a dict of two valid addresses, resolved with validation on
C13_Witness ==
    /\ call.op = "_resolveAddresses"
    /\ call.args.to.kind = "dict"
    /\ Len(call.args.to.items) = 2
    /\ AllValid(Addrs(call.args.to))
    /\ call.args.cc.kind = "none"
    /\ call.args.bcc.kind = "none"
    /\ call.args.validate_email
    /\ result.kind = "return"
    /\ result.payload[1].recipients = Addrs(call.args.to)

----------------------------------------------------------------------------
(* C14.  A send with use_cache that builds its message from items that are *)
(* all in the cache already (an earlier build put them there) leaves every *)
(* cached content object as it was, headers and payload, image-typed ones  *)
(* included, and does not classify any item again.                         *)

Composed(tr) == \E i \in 1..Len(tr) : tr[i].ev = "compose"

Classified(tr) == \E i \in 1..Len(tr) : tr[i].ev = "classify"

AllCached(contents, c) ==
    /\ contents.items # <<>>
    /\ \A i \in 1..Len(contents.items) : contents.items[i].src \in DOMAIN c

C14_CachedBuildIdempotent ==
    [][(/\ call'.op = "send"
        /\ call'.args.use_cache
        /\ AllCached(call'.args.contents, cache)
        /\ Composed(trace'))
       =>
       /\ cache' = cache
       /\ ~Classified(trace')]_vars

----------------------------------------------------------------------------
(* C15.  Within a send, every attempt after the first is made on a live    *)
(* transport handle: when a disconnect has left the handle dead, it is     *)
(* re-established before the retry.                                        *)

C15_RetryOnLiveHandle ==
    call.op = "send" =>
        \A i \in 1..Len(trace) :
            (trace[i].ev = "sendmail" /\ trace[i].n > 1) => trace[i].on = "live"

----------------------------------------------------------------------------
(* C16.  No call made while the session is closed invokes sendmail on the  *)
(* transport; send_unsent on a closed session whose unsent queue is not    *)
(* empty fails with YagConnectionClosed.                                   *)

C16_NoTransmitWhenClosed ==
    [][(is_closed /\ call'.op \in {"send", "send_unsent"})
       =>
       /\ Sendmails(trace') = <<>>
       /\ (call'.op = "send_unsent" /\ unsent # <<>>)
              => result' = Raise("YagConnectionClosed")]_vars

----------------------------------------------------------------------------
(* C17.  A login that has a password (given, or found in the keyring) and  *)
(* that the transport accepts calls it in the order connect, then ehlo,    *)
(* starttls, ehlo when STARTTLS is enabled and none of these when it is    *)
(* not, then login; it returns and the session is open.  A                 *)
(* closed session becomes open only by a login whose last step is the      *)
(* accepted authentication, and stays closed when login raises.            *)

IsTransportStep(e) == e.ev \in {"connect", "ehlo", "starttls", "login"}

TransportSteps(tr) ==
    [i \in 1..Len(SelectSeq(tr, IsTransportStep)) |-> SelectSeq(tr, IsTransportStep)[i].ev]

C17_LoginOrder ==
    [][call'.op = "login" =>
        /\ (/\ call'.args.connect /\ call'.args.tls /\ call'.args.auth
            /\ ~Prompts(user, call'.args)) =>
              /\ TransportSteps(trace')
                    = <<"connect">>
                      \o (IF starttls = "True" THEN <<"ehlo", "starttls", "ehlo">> ELSE <<>>)
                      \o <<"login">>
              /\ result'.kind = "return"
              /\ ~is_closed'
        /\ (is_closed /\ ~is_closed') =>
              /\ trace'[Len(trace')].ev = "login"
              /\ trace'[Len(trace')].out = "ok"
        /\ (is_closed /\ result'.kind = "raise") => is_closed']_vars

----------------------------------------------------------------------------
(* C18.  What a built message holds, for the content items it was built    *)
(* from, whatever the form of contents (a list of items or one string):    *)
(* one part per item in the mixed container, in input order; for each      *)
(* image-typed part, and for no other, one <img src="cid:ID"> fragment in  *)
(* the alternative part, in the same order, with ID the Content-ID of that *)
(* part; the preamble exactly when a part is image-typed.                  *)

\* the index of the first token of s equal to tok
FirstIndex(s, tok) == CHOOSE i \in 1..Len(s) : s[i] = tok /\ \A j \in 1..(i - 1) : s[j] # tok

\* the ID of the (first) Content-ID header of a part: what is between < and >
ContentId(m) == SubSeq(m.headers, FirstIndex(m.headers, "<") + 1, FirstIndex(m.headers, ">") - 1)

\* the fragments that the image-typed parts from the k-th on call for
RECURSIVE FragmentsFor(_, _)
FragmentsFor(parts, k) ==
    IF k > Len(parts) THEN <<>>
    ELSE (IF parts[k].main = "image"
          THEN IF HasHeader(parts[k], "Content-ID")
               THEN ImgFragment(ContentId(parts[k]))
               ELSE <<"no Content-ID">>
          ELSE <<>>)
         \o FragmentsFor(parts, k + 1)

\* the part is the one classified from the item
PartOfItem(m, item) ==
    /\ m.main = get_mime_object(item).main_type
    /\ m.sub = get_mime_object(item).sub_type
    /\ m.name = get_mime_object(item).mime_object.name

BuiltAsClaimed(items, m) ==
    /\ Len(m.parts) = Len(items)
    /\ \A k \in 1..Len(items) : PartOfItem(m.parts[k], items[k])
    /\ m.alternative = FragmentsFor(m.parts, 1)
    /\ (Preamble \in Range(m.msg_string)) <=> (\E k \in 1..Len(m.parts) : m.parts[k].main = "image")

Built == call.op = "_prepare_message" /\ result.kind = "return"

C18_OnePartPerItem ==
    Built => BuiltAsClaimed(call.args.contents.items, result.payload[1])

----------------------------------------------------------------------------
(* C19.  _get_mime_object classifies every item, by the first rule that    *)
(* applies: a file is not fetched and is typed from its name               *)
(* (application/octet-stream when the name tells no type); else an item    *)
(* whose fetch answers is typed from the content-type header of the        *)
(* response when there is one, and from its name when there is none, and   *)
(* is not taken for text; else (the fetch raised) the item is literal      *)
(* text: text/html when lxml is there and the text is markup, text/plain   *)
(* in every other case.                                                    *)

OctetStream == <<"application", "octet-stream">>

TypeOf(o) == <<o.main_type, o.sub_type>>

WasFetched(tr) == \E i \in 1..Len(tr) : tr[i].ev = "requests.get"

LiteralType(w) == IF lxml /\ w.html = "markup" THEN <<"text", "html">> ELSE <<"text", "plain">>

\* the content object is the text of the item, not what was read or fetched
IsLiteralText(o, item) == o.mime_object.payload = <<item.src>>

C19_RulesInOrder ==
    call.op = "_get_mime_object" =>
        /\ result.kind = "return"
        /\ LET w == call.args.world
               type == TypeOf(result.payload[1])
               named == IF w.guess = <<>> THEN OctetStream ELSE w.guess
           IN /\ w.isfile => (~WasFetched(trace) /\ type = named)
              /\ (~w.isfile /\ w.fetch = "typed") => type = w.ctype
              /\ (~w.isfile /\ w.fetch = "untyped") => type = named
              /\ (~w.isfile /\ w.fetch # "raise") =>
                     ~IsLiteralText(result.payload[1], call.args.item)
              /\ (~w.isfile /\ w.fetch = "raise") => type = LiteralType(w)

----------------------------------------------------------------------------
(* C20.  A send with preview_only on an open session whose recipient set   *)
(* is not empty returns the resolved addresses and the serialized message  *)
(* that was composed, calls nothing on the transport, and leaves unsent,   *)
(* num_mail_sent and the transport handle as they were.                    *)

C20_PreviewSendsNothing ==
    [][(/\ call'.op = "send"
        /\ call'.args.preview_only
        /\ ~is_closed
        /\ NonEmptyRecipients(call'.args))
       =>
       /\ result'.kind = "return"
       /\ result'.val = "preview"
       /\ result'.payload[1] = Resolved(call'.args).addresses
       /\ result'.payload[2] # <<>>
       /\ Composed(trace')
       /\ Sendmails(trace') = <<>>
       /\ unsent' = unsent
       /\ num_mail_sent' = num_mail_sent
       /\ smtp' = smtp]_vars

\* a preview returned while a message was waiting in unsent
C20_Witness ==
    /\ call.op = "send"
    /\ call.args.preview_only
    /\ ~is_closed
    /\ result.val = "preview"
    /\ Len(unsent) = 1
    /\ num_mail_sent = 0
    /\ Composed(trace)
    /\ Sendmails(trace) = <<>>

====
